---------------------------- MODULE Spec2Model ----------------------------
(***************************************************************************)
(* Model of the EOF rotation post-processing of src/eof_rotation.py:       *)
(* post_process_rotation = rotate_eofs (calculate_angle_from_discontinuity *)
(* followed by rotate_each_eof_by_delta) followed by normalize_eofs.       *)
(*                                                                         *)
(* Floating point numbers are modelled as fixed point numbers: an integer  *)
(* n stands for n / Scale, every product and quotient is rounded to the    *)
(* nearest representable number, NaN propagates as in IEEE arithmetic.     *)
(* Angles are fixed point radians (PiU stands for pi).                     *)
(***************************************************************************)
EXTENDS Integers, Sequences, FiniteSets, TLC

(***************************************************************************)
(* Bounds of the model.                                                    *)
(***************************************************************************)
\* longest input series drawn from the frame library (shortest is 2)
MaxD == 3
\* longest list that tools.doy_list() may return (shortest is 2)
MaxDoy == 4

(***************************************************************************)
(* Fixed point arithmetic standing for numpy's float64 arithmetic.         *)
(***************************************************************************)
Scale == 10000
PiU == 31416
NaN == -(2^30)
Inf == 2^29

IsNaN(x) == x = NaN

Abs(x) == IF x < 0 THEN -x ELSE x

\* a / b rounded to the nearest integer, b > 0
RDiv(a, b) == IF a >= 0 THEN (a + (b \div 2)) \div b
                        ELSE -((-a + (b \div 2)) \div b)

FNeg(x) == IF IsNaN(x) THEN NaN ELSE -x

FMul(x, y) == IF IsNaN(x) \/ IsNaN(y) THEN NaN ELSE RDiv(x * y, Scale)

\* float division: 0/0 is nan, x/0 is +-inf (numpy warns, it does not raise)
FDiv(x, y) ==
    IF IsNaN(x) \/ IsNaN(y) THEN NaN
    ELSE IF y = 0 THEN (IF x = 0 THEN NaN ELSE IF x > 0 THEN Inf ELSE -Inf)
    ELSE IF y > 0 THEN RDiv(x * Scale, y)
    ELSE -RDiv(x * Scale, -y)

\* division of a float by the integer len(list_of_doys)
FDivInt(x, n) == IF IsNaN(x) THEN NaN ELSE RDiv(x, n)

RECURSIVE ISqrtBin(_, _, _)
\* largest r in lo..hi with r*r <= n
ISqrtBin(n, lo, hi) ==
    IF lo >= hi THEN lo
    ELSE LET mid == (lo + hi + 1) \div 2
         IN  IF mid * mid <= n THEN ISqrtBin(n, mid, hi)
                               ELSE ISqrtBin(n, lo, mid - 1)

\* square root rounded to the nearest integer
ISqrt(n) ==
    LET r == ISqrtBin(n, 0, 46340)
    IN  IF n - r * r > r THEN r + 1 ELSE r

HasNaN(v) == \E i \in 1..Len(v) : IsNaN(v[i])

RECURSIVE SumProd(_, _, _)
SumProd(v, w, i) == IF i = 0 THEN 0 ELSE v[i] * w[i] + SumProd(v, w, i - 1)

\* np.dot of two vectors
Dot(v, w) == IF HasNaN(v) \/ HasNaN(w) THEN NaN
             ELSE RDiv(SumProd(v, w, Len(v)), Scale)

\* np.linalg.norm
Norm(v) == IF HasNaN(v) THEN NaN ELSE ISqrt(SumProd(v, v, Len(v)))

\* np.clip(x, lo, hi): nan stays nan
Clip(x, lo, hi) == IF IsNaN(x) THEN NaN
                   ELSE IF x < lo THEN lo ELSE IF x > hi THEN hi ELSE x

\* one Horner step 1 - x2 * inner / k of the cosine and sine series
Horner(x2, k, inner) == Scale - RDiv(x2 * inner, k * Scale)

CosSeries(x) ==
    LET x2 == RDiv(x * x, Scale)
    IN  Horner(x2, 2, Horner(x2, 12, Horner(x2, 30, Horner(x2, 56,
            Horner(x2, 90, Scale)))))

SinSeries(x) ==
    LET x2 == RDiv(x * x, Scale)
    IN  RDiv(x * Horner(x2, 6, Horner(x2, 20, Horner(x2, 42,
            Horner(x2, 72, Scale)))), Scale)

\* np.cos for angles in [-pi, pi]
Cos(x) ==
    IF IsNaN(x) THEN NaN
    ELSE LET a == Abs(x)
         IN  IF 2 * a <= PiU THEN CosSeries(a) ELSE -CosSeries(PiU - a)

\* np.sin for angles in [-pi, pi]
Sin(x) ==
    IF IsNaN(x) THEN NaN
    ELSE LET a == Abs(x)
             s == IF 2 * a <= PiU THEN SinSeries(a) ELSE SinSeries(PiU - a)
         IN  IF x < 0 THEN -s ELSE s

RECURSIVE ArcCosSearch(_, _, _)
\* least angle in lo..hi whose cosine is at most c
ArcCosSearch(c, lo, hi) ==
    IF lo >= hi THEN lo
    ELSE LET mid == (lo + hi) \div 2
         IN  IF Cos(mid) <= c THEN ArcCosSearch(c, lo, mid)
                              ELSE ArcCosSearch(c, mid + 1, hi)

\* np.arccos on [-1, 1]: a value in [0, pi]; nan for nan
ArcCos(c) == IF IsNaN(c) THEN NaN
             ELSE IF c >= 0 THEN ArcCosSearch(c, 0, PiU)
             ELSE PiU - ArcCosSearch(-c, 0, PiU)

(***************************************************************************)
(* Matrices are sequences of rows.                                         *)
(***************************************************************************)
RECURSIVE Column(_, _, _)
\* the first i entries of column j of X
Column(X, j, i) == IF i = 0 THEN <<>> ELSE Append(Column(X, j, i - 1), X[i][j])

RECURSIVE Columns(_, _)
\* the first j columns of X, as rows
Columns(X, j) ==
    IF j = 0 THEN <<>> ELSE Append(Columns(X, j - 1), Column(X, j, Len(X)))

\* X.T
Transpose(X) == Columns(X, Len(X[1]))

RECURSIVE RowTimes(_, _, _)
\* the first j entries of the row x times the matrix whose transpose is YT
RowTimes(x, YT, j) ==
    IF j = 0 THEN <<>> ELSE Append(RowTimes(x, YT, j - 1), Dot(x, YT[j]))

RECURSIVE RowsTimes(_, _, _)
RowsTimes(X, YT, i) ==
    IF i = 0 THEN <<>>
    ELSE Append(RowsTimes(X, YT, i - 1), RowTimes(X[i], YT, Len(YT)))

\* np.matmul
MatMul(X, Y) == RowsTimes(X, Transpose(Y), Len(X))

RECURSIVE DivideBy(_, _, _)
\* the first i entries of v / n
DivideBy(v, n, i) ==
    IF i = 0 THEN <<>> ELSE Append(DivideBy(v, n, i - 1), FDiv(v[i], n))

(***************************************************************************)
(* The data model of mjoindices: EOFData is a record, EOFDataForAllDOYs a  *)
(* sequence of them indexed by the day of the year.                        *)
(***************************************************************************)
EOFData(lat, long, eof1, eof2, ev, eig, nobs) ==
    [lat |-> lat, long |-> long, eof1vector |-> eof1, eof2vector |-> eof2,
     explained_variances |-> ev, eigenvalues |-> eig, no_observations |-> nobs]

\* EOFDataForAllDOYs.eofdata_for_doy: the doy-th entry of the list
eofdata_for_doy(eofs, doy) == eofs[doy]

\* eofdata_for_doy raises an IndexError past the end of the list
HasDoy(eofs, doy) == doy \in 1..Len(eofs)

Pair(frame) == <<frame.eof1vector, frame.eof2vector>>

(***************************************************************************)
(* The functions of src/eof_rotation.py.                                   *)
(***************************************************************************)
\* arccos(clip(v1.v2 / (|v1| |v2|), -1, 1))
angle_btwn_vectors(vector1, vector2) ==
    ArcCos(Clip(FDiv(Dot(vector1, vector2),
                     FMul(Norm(vector1), Norm(vector2))), -Scale, Scale))

\* mutant: cosine and sine change places
rotation_matrix_swapped(delta) ==
    << <<Sin(delta), FNeg(Cos(delta))>>, <<Cos(delta), Sin(delta)>> >>

\* mutant: the rotation by -delta (the transposed matrix)
rotation_matrix_transposed(delta) ==
    << <<Cos(delta), Sin(delta)>>, <<FNeg(Sin(delta)), Cos(delta)>> >>

rotation_matrix(delta) ==
    << <<Cos(delta), FNeg(Sin(delta))>>, <<Sin(delta), Cos(delta)>> >>

\* mutant: the estimator projects onto day d itself
NextDoy_same(d, ndoys) == d

\* the day the estimator projects onto at step d: d+1, day 1 after the last
NextDoy(d, ndoys) == IF d + 1 > ndoys THEN 1 ELSE d + 1

\* rots = np.matmul(np.matmul(B, B.T), A).T
ProjectOnto(doyn, rots) ==
    LET B == Transpose(Pair(doyn))
        A == Transpose(rots)
    IN  Transpose(MatMul(MatMul(B, Transpose(B)), A))

\* rots = np.matmul(np.matmul(np.matmul(B, B.T), A), R).T
ProjectAndRotate(doyn, rots, R) ==
    LET B == Transpose(Pair(doyn))
        A == Transpose(rots)
    IN  Transpose(MatMul(MatMul(MatMul(B, Transpose(B)), A), R))

\* mutant: the second running vector is measured
Discontinuity_second(doy1, rots) == angle_btwn_vectors(doy1.eof1vector, rots[2])

\* discont = angle between day 1's eof1 and the propagated first vector
Discontinuity(doy1, rots) == angle_btwn_vectors(doy1.eof1vector, rots[1])

\* mutant: the sign is lost
DeltaOf_positive(discont, ndoys) == FDivInt(discont, ndoys)

\* return -discont/ndoys
DeltaOf(discont, ndoys) == FDivInt(FNeg(discont), ndoys)

\* mutant: the loop of the rotator runs over all of list_of_doys
RotatedDoys_all(list_of_doys) == list_of_doys

\* list_of_doys[1:], the days the rotator loops over
RotatedDoys(list_of_doys) == Tail(list_of_doys)

\* the frame appended to eofdata_rotated for day d
RotatedFrame(doyn, rots) ==
    EOFData(doyn.lat, doyn.long, rots[1], rots[2],
            doyn.explained_variances, doyn.eigenvalues, doyn.no_observations)

\* vector / np.linalg.norm(vector)
Normalized(v) == DivideBy(v, Norm(v), Len(v))

\* mutant: explained variances and eigenvalues change places
NormalizedFrame_swapped(doyn) ==
    EOFData(doyn.lat, doyn.long,
            Normalized(doyn.eof1vector), Normalized(doyn.eof2vector),
            doyn.eigenvalues, doyn.explained_variances, doyn.no_observations)

\* the frame appended to eofdata_normalized for day d
NormalizedFrame(doyn) ==
    EOFData(doyn.lat, doyn.long,
            Normalized(doyn.eof1vector), Normalized(doyn.eof2vector),
            doyn.explained_variances, doyn.eigenvalues, doyn.no_observations)

(***************************************************************************)
(* The projection pass of calculate_angle_from_discontinuity as a          *)
(* function of a series, to measure the seam of any series of n days.      *)
(***************************************************************************)
RECURSIVE ProjectionPassFrom(_, _, _, _, _)
\* the running pair after the steps k..last of a cycle of n days, started
\* with the pair r
ProjectionPassFrom(eofs, n, k, last, r) ==
    IF k > last THEN r
    ELSE ProjectionPassFrom(eofs, n, k + 1, last,
             ProjectOnto(eofdata_for_doy(eofs, NextDoy(k, n)), r))

\* the running pair after the first steps of the pass
ProjectionPassUpTo(eofs, n, last) ==
    ProjectionPassFrom(eofs, n, 1, last, Pair(eofdata_for_doy(eofs, 1)))

ProjectionPass(eofs, n) == ProjectionPassUpTo(eofs, n, n)

\* the discontinuity the estimator measures on a series of n days
SeamAngle(eofs, n) ==
    Discontinuity(eofdata_for_doy(eofs, 1), ProjectionPass(eofs, n))


(***************************************************************************)
(* Inputs: series of 2..MaxD frames over a library of pairs in a space of  *)
(* 3 grid points, and the toy cycles of 4 days over 2 grid points.         *)
(***************************************************************************)
\* three planes tilted against each other, one of them in both directions,
\* and pairs with a null first or second vector
PairLibrary ==
    { << <<Scale, 0, 0>>, <<0, Scale, 0>> >>,
      << <<Scale, 0, 0>>, <<0, 8000, 6000>> >>,
      << <<Scale, 0, 0>>, <<0, 8000, -6000>> >>,
      << <<8000, 0, 6000>>, <<0, Scale, 0>> >>,
      << <<0, 0, 0>>, <<0, Scale, 0>> >>,
      << <<Scale, 0, 0>>, <<0, 0, 0>> >> }

\* provenance differs from day to day so that a shift shows
FrameOfDay(d, pair) ==
    EOFData(<<d, 1>>, <<d, 2>>, pair[1], pair[2], <<d, 3>>, <<d, 4>>, 100 + d)

LibrarySeries ==
    UNION { { [d \in 1..n |-> FrameOfDay(d, f[d])] : f \in [1..n -> PairLibrary] }
            : n \in 2..MaxD }

\* the standard basis of the plane rotated by the angle a
RotatedBasis(a) == << <<Cos(a), Sin(a)>>, <<-Sin(a), Cos(a)>> >>

ToyStep == PiU \div 8
ToySeam == PiU \div 6

\* day d is the standard basis rotated by d*pi/8 (D = 4, M = 2)
ToySeriesPlain ==
    << FrameOfDay(1, RotatedBasis(ToyStep)),
       FrameOfDay(2, RotatedBasis(ToyStep + ToyStep)),
       FrameOfDay(3, RotatedBasis(ToyStep + ToyStep + ToyStep)),
       FrameOfDay(4, RotatedBasis(ToyStep + ToyStep + ToyStep + ToyStep)) >>

\* the same with an extra pi/6 on the last day, before the wrap to day 1
ToySeriesSeam ==
    [ToySeriesPlain EXCEPT ![Len(ToySeriesPlain)] =
        FrameOfDay(Len(ToySeriesPlain),
                   RotatedBasis(Len(ToySeriesPlain) * ToyStep + ToySeam))]

ToySeries == {ToySeriesPlain, ToySeriesSeam}

\* the toy cycles are the only inputs over 2 grid points
IsToySeries(eofs) == Len(eofs[1].eof1vector) = 2 /\ eofs \in ToySeries

InputSeries == LibrarySeries \cup ToySeries

\* what tools.doy_list() may return: the days 1..n
DoyLists == { [d \in 1..n |-> d] : n \in 2..MaxDoy }

(***************************************************************************)
(* State.                                                                  *)
(***************************************************************************)
VARIABLES
    pc,                   \* position in post_process_rotation
    orig_eofs,            \* the sign-corrected input series (pp_eofs)
    strict_leap_year_treatment, \* argument of post_process_rotation
    doy_list,             \* the list tools.doy_list() returns
    d,                    \* loop variable of the running loop
    rots,                 \* the running pair
    discont,              \* the measured discontinuity
    delta,                \* the value calculate_angle_from_discontinuity returns
    eofdata_rotated,      \* list built by rotate_each_eof_by_delta
    eofdata_normalized,   \* list built by normalize_eofs
    projected_onto,       \* history: the days the estimator projected onto
    rotations_applied     \* history: how often R was multiplied in

vars == <<pc, orig_eofs, strict_leap_year_treatment, doy_list, d, rots, discont,
          delta, eofdata_rotated, eofdata_normalized, projected_onto,
          rotations_applied>>

ndoys == Len(doy_list)

Init ==
    /\ pc = "start"
    /\ orig_eofs \in InputSeries
    /\ strict_leap_year_treatment \in BOOLEAN
    /\ doy_list \in DoyLists
    /\ d = 0
    /\ rots = <<>>
    /\ discont = 0
    /\ delta = 0
    /\ eofdata_rotated = <<>>
    /\ eofdata_normalized = <<>>
    /\ projected_onto = <<>>
    /\ rotations_applied = 0

\* post_process_rotation -> rotate_eofs -> calculate_angle_from_discontinuity,
\* up to the loop: list_of_doys, doy1, ndoys, rots
CalcAngleEnter ==
    /\ pc = "start"
    /\ pc' = "calc_angle"
    /\ d' = 1
    /\ rots' = Pair(eofdata_for_doy(orig_eofs, 1))
    /\ UNCHANGED <<orig_eofs, strict_leap_year_treatment, doy_list, discont,
                   delta, eofdata_rotated, eofdata_normalized, projected_onto,
                   rotations_applied>>

\* one iteration of "for d in list_of_doys" of the estimator
CalcAngleStep ==
    /\ pc = "calc_angle"
    /\ d <= ndoys
    /\ LET n == NextDoy(d, ndoys)
       IN  IF HasDoy(orig_eofs, n)
           THEN /\ rots' = ProjectOnto(eofdata_for_doy(orig_eofs, n), rots)
                /\ projected_onto' = Append(projected_onto, n)
                /\ d' = d + 1
                /\ pc' = pc
           ELSE /\ pc' = "error"
                /\ UNCHANGED <<rots, projected_onto, d>>
    /\ UNCHANGED <<orig_eofs, strict_leap_year_treatment, doy_list, discont,
                   delta, eofdata_rotated, eofdata_normalized, rotations_applied>>

\* the estimator measures the discontinuity and returns -discont/ndoys
CalcAngleReturn ==
    /\ pc = "calc_angle"
    /\ d > ndoys
    /\ LET dc == Discontinuity(eofdata_for_doy(orig_eofs, 1), rots)
       IN  /\ discont' = dc
           /\ delta' = DeltaOf(dc, ndoys)
    /\ pc' = "calc_done"
    /\ UNCHANGED <<orig_eofs, strict_leap_year_treatment, doy_list, d, rots,
                   eofdata_rotated, eofdata_normalized, projected_onto,
                   rotations_applied>>

\* rotate_eofs passes delta on to rotate_each_eof_by_delta, which starts its
\* list with day 1 unchanged and its running pair with day 1's pair
RotateEnter ==
    /\ pc = "calc_done"
    /\ LET doy1 == eofdata_for_doy(orig_eofs, 1)
       IN  /\ eofdata_rotated' = <<doy1>>
           /\ rots' = Pair(doy1)
    /\ d' = Head(RotatedDoys(doy_list))
    /\ pc' = "rotate"
    /\ UNCHANGED <<orig_eofs, strict_leap_year_treatment, doy_list, discont,
                   delta, eofdata_normalized, projected_onto, rotations_applied>>

\* one iteration of "for d in list_of_doys[1:]" of the rotator
RotateStep ==
    /\ pc = "rotate"
    /\ d <= ndoys
    /\ IF HasDoy(orig_eofs, d)
       THEN LET doyn == eofdata_for_doy(orig_eofs, d)
                r == ProjectAndRotate(doyn, rots, rotation_matrix(delta))
            IN  /\ rots' = r
                /\ eofdata_rotated' = Append(eofdata_rotated, RotatedFrame(doyn, r))
                /\ rotations_applied' = rotations_applied + 1
                /\ d' = d + 1
                /\ pc' = pc
       ELSE /\ pc' = "error"
            /\ UNCHANGED <<rots, eofdata_rotated, rotations_applied, d>>
    /\ UNCHANGED <<orig_eofs, strict_leap_year_treatment, doy_list, discont,
                   delta, eofdata_normalized, projected_onto>>

\* rotate_each_eof_by_delta returns; normalize_eofs starts
RotateReturn ==
    /\ pc = "rotate"
    /\ d > ndoys
    /\ pc' = "normalize"
    /\ d' = 1
    /\ eofdata_normalized' = <<>>
    /\ UNCHANGED <<orig_eofs, strict_leap_year_treatment, doy_list, rots, discont,
                   delta, eofdata_rotated, projected_onto, rotations_applied>>

\* one iteration of "for d in list_of_doys" of normalize_eofs
NormalizeStep ==
    /\ pc = "normalize"
    /\ d <= ndoys
    /\ IF HasDoy(eofdata_rotated, d)
       THEN /\ eofdata_normalized' =
                  Append(eofdata_normalized,
                         NormalizedFrame(eofdata_for_doy(eofdata_rotated, d)))
            /\ d' = d + 1
            /\ pc' = pc
       ELSE /\ pc' = "error"
            /\ UNCHANGED <<eofdata_normalized, d>>
    /\ UNCHANGED <<orig_eofs, strict_leap_year_treatment, doy_list, rots, discont,
                   delta, eofdata_rotated, projected_onto, rotations_applied>>

\* normalize_eofs and post_process_rotation return
NormalizeReturn ==
    /\ pc = "normalize"
    /\ d > ndoys
    /\ pc' = "done"
    /\ UNCHANGED <<orig_eofs, strict_leap_year_treatment, doy_list, d, rots,
                   discont, delta, eofdata_rotated, eofdata_normalized,
                   projected_onto, rotations_applied>>

Next ==
    \/ CalcAngleEnter
    \/ CalcAngleStep
    \/ CalcAngleReturn
    \/ RotateEnter
    \/ RotateStep
    \/ RotateReturn
    \/ NormalizeStep
    \/ NormalizeReturn

Spec == Init /\ [][Next]_vars

(***************************************************************************)
(* Vocabulary of the properties.                                           *)
(***************************************************************************)
NonZero(v) == \E i \in 1..Len(v) : v[i] # 0

\* no frame holds a null vector
ValidInput(eofs) ==
    \A k \in 1..Len(eofs) :
        NonZero(eofs[k].eof1vector) /\ NonZero(eofs[k].eof2vector)

\* the signs of consecutive days agree, as the sign correction leaves them
SignAligned(eofs) ==
    \A k \in 2..Len(eofs) :
        /\ Dot(eofs[k].eof1vector, eofs[k - 1].eof1vector) > 0
        /\ Dot(eofs[k].eof2vector, eofs[k - 1].eof2vector) > 0

FrameHasNaN(frame) == HasNaN(frame.eof1vector) \/ HasNaN(frame.eof2vector)

\* the estimator has returned its delta
EstimatorReturned == pc \in {"calc_done", "rotate", "normalize", "done"}

\* the rotator has returned its series
RotatorReturned == pc \in {"normalize", "done"}

\* the smallest angle the arithmetic of the model tells from 0 (1e-4 rad)
AngleUnit == Scale \div 10000

(***************************************************************************)
(* C1. Closure: re-running the projection pass of the estimator on the     *)
(* series the rotator returned for a valid sign-aligned input measures a   *)
(* seam angle below the tolerance between day 1's eof1 and the propagated  *)
(* vector. The tolerance checked is one angle unit of the model, which is  *)
(* wider than the 1e-6 rad of the claim.                                   *)
(***************************************************************************)
\* C1: the seam of the rotated series, measured by the projection pass, is
\* below the tolerance
C1_Closure ==
    (/\ RotatorReturned
     /\ ndoys = Len(orig_eofs)
     /\ ValidInput(orig_eofs)
     /\ SignAligned(orig_eofs))
    => LET seam == SeamAngle(eofdata_rotated, ndoys)
       IN  ~IsNaN(seam) /\ seam < AngleUnit

(***************************************************************************)
(* C2. The cycle length is generic: the estimator makes as many steps as   *)
(* the input has days and divides by that number, the rotator and the      *)
(* normalizer return as many frames as the input has, whatever             *)
(* strict_leap_year_treatment is, and no stage fails for want of a day.    *)
(***************************************************************************)
\* C2: every stage works on exactly the days of the input series
C2_CycleLengthGeneric ==
    LET D == Len(orig_eofs)
    IN  /\ pc # "error"
        /\ EstimatorReturned =>
              /\ Len(projected_onto) = D
              /\ delta = DeltaOf(discont, D)
        /\ RotatorReturned => Len(eofdata_rotated) = D
        /\ pc = "done" => Len(eofdata_normalized) = D

(***************************************************************************)
(* C3. A null vector is fatal: the computation never gets past the angle   *)
(* computation with an undefined delta and never returns a series holding  *)
(* undefined vectors.                                                      *)
(***************************************************************************)
\* C3: no undefined delta and no undefined vector is ever handed on
C3_NullVectorIsFatal ==
    /\ EstimatorReturned => ~IsNaN(delta)
    /\ pc = "done" =>
          \A k \in 1..Len(eofdata_normalized) : ~FrameHasNaN(eofdata_normalized[k])

(***************************************************************************)
(* C4. The toy cycle (4 days, 2 grid points, day d the standard basis      *)
(* rotated by d*pi/8, with or without the extra pi/6 before the wrap).     *)
(***************************************************************************)
\* how far a delta may be from its expected value and still be "about" it
ToyTolerance == PiU \div 100

\* C4 as claimed: the estimator returns about -pi/(6*4) for the toy cycle
\* with the injected seam error.
C4_ToyDeltaIsSeamOverD ==
    (/\ EstimatorReturned
     /\ ndoys = Len(orig_eofs)
     /\ IsToySeries(orig_eofs)
     /\ orig_eofs = ToySeriesSeam)
    => Abs(delta - (-(PiU \div 24))) <= ToyTolerance

\* C4 as amended: whenever the estimator returns on a toy cycle, it has
\* measured no discontinuity at all and returns delta = 0, because the pair
\* of every day spans the whole plane and the projection is the identity up
\* to rounding.
C4_ToyDeltaIsZero ==
    (EstimatorReturned /\ IsToySeries(orig_eofs))
    => discont = 0 /\ delta = 0

\* C4: the estimator has returned on the toy cycle with the seam error
C4_Witness ==
    /\ pc = "calc_done"
    /\ ndoys = Len(orig_eofs)
    /\ IsToySeries(orig_eofs)
    /\ orig_eofs = ToySeriesSeam
    /\ Len(projected_onto) = 4
    /\ delta = 0

(***************************************************************************)
(* C5. How often the per-day rotation is applied over one cycle.           *)
(***************************************************************************)
\* the rotation accumulated in the running pair of the rotator
AccumulatedRotation == rotations_applied * delta

\* C5 as claimed: the rotation is applied D times and the accumulated
\* rotation is D*delta = -discontinuity (up to the rounding of the division)
C5_AppliedDTimes ==
    (RotatorReturned /\ ~IsNaN(delta))
    => /\ rotations_applied = ndoys
       /\ Abs(AccumulatedRotation + discont) <= ndoys

\* C5 as amended: the rotation is applied once for each of the days 2..D,
\* that is D-1 times; the rotation accumulated in the last frame is
\* (D-1)*delta, one delta short of -discontinuity.
C5_AppliedDMinusOneTimes ==
    (RotatorReturned /\ ~IsNaN(delta))
    => /\ rotations_applied = ndoys - 1
       /\ Len(eofdata_rotated) = ndoys
       /\ AccumulatedRotation = (ndoys - 1) * delta
       /\ Abs(AccumulatedRotation + delta + discont) <= ndoys

\* C5: the rotator has returned a series of 3 or more days rotated by delta < 0
C5_Witness ==
    /\ pc = "normalize"
    /\ ndoys = Len(orig_eofs)
    /\ ndoys >= 3
    /\ ValidInput(orig_eofs)
    /\ delta < 0
    /\ rotations_applied = ndoys - 1

(***************************************************************************)
(* C6. Zero-discontinuity fixed point: when the measured discontinuity is  *)
(* 0 the estimator returns delta = 0 and the rotator returns day 1 as it   *)
(* is and, for every later day, exactly the pair of the pure sequential    *)
(* re-projection (the running pair projected onto the day's original       *)
(* vectors, no rotation mixed in).                                         *)
(***************************************************************************)
RECURSIVE PureReprojection(_, _)
\* the running pair of the re-projection pass at day k, without rotation
PureReprojection(eofs, k) ==
    IF k = 1 THEN Pair(eofdata_for_doy(eofs, 1))
    ELSE ProjectOnto(eofdata_for_doy(eofs, k), PureReprojection(eofs, k - 1))

\* C6: with discontinuity 0, delta is 0 and the rotated series is the pure
\* re-projection of the input
C6_ZeroDiscontinuityFixedPoint ==
    (EstimatorReturned /\ discont = 0)
    => /\ delta = 0
       /\ \A k \in 1..Len(eofdata_rotated) :
             IF k = 1 THEN eofdata_rotated[k] = orig_eofs[1]
             ELSE Pair(eofdata_rotated[k]) = PureReprojection(orig_eofs, k)
       /\ RotatorReturned => Len(eofdata_rotated) = ndoys

\* C6: a series of changing frames with discontinuity 0 has been rotated
C6_Witness ==
    /\ pc = "normalize"
    /\ discont = 0
    /\ ndoys = Len(orig_eofs)
    /\ ndoys >= 3
    /\ ValidInput(orig_eofs)
    /\ orig_eofs[2].eof1vector # orig_eofs[1].eof1vector
    /\ orig_eofs[3].eof2vector # orig_eofs[2].eof2vector
    /\ Pair(eofdata_rotated[3]) # Pair(orig_eofs[3])

(***************************************************************************)
(* C7. Provenance is carried through by day: the frame at position k of    *)
(* the rotator's and of the normalizer's series carries the latitudes,     *)
(* longitudes, explained variances, eigenvalues and observation count of   *)
(* the input's day k; the rotator's day 1 also keeps the input's vectors.  *)
(***************************************************************************)
SameProvenance(f, g) ==
    /\ f.lat = g.lat
    /\ f.long = g.long
    /\ f.explained_variances = g.explained_variances
    /\ f.eigenvalues = g.eigenvalues
    /\ f.no_observations = g.no_observations

\* C7: position k of both output series carries the provenance of day k
C7_ProvenanceByDay ==
    /\ \A k \in 1..Len(eofdata_rotated) :
          SameProvenance(eofdata_rotated[k], orig_eofs[k])
    /\ \A k \in 1..Len(eofdata_normalized) :
          SameProvenance(eofdata_normalized[k], orig_eofs[k])
    /\ pc \in {"rotate", "normalize", "done"} => eofdata_rotated[1] = orig_eofs[1]
    /\ RotatorReturned => Len(eofdata_rotated) = ndoys
    /\ pc = "done" => Len(eofdata_normalized) = ndoys

\* C7: the pipeline has returned a series of 3 or more days
C7_Witness ==
    /\ pc = "done"
    /\ ndoys = Len(orig_eofs)
    /\ ndoys >= 3
    /\ eofdata_normalized[3].no_observations = orig_eofs[3].no_observations
    /\ eofdata_normalized[3].no_observations # orig_eofs[2].no_observations
    /\ eofdata_normalized[3].eof1vector # orig_eofs[3].eof1vector

(***************************************************************************)
(* C8. The estimator makes exactly as many projection steps as there are   *)
(* days, in increasing order from day 1's pair: step k projects onto day   *)
(* k+1 and the last step onto day 1; the discontinuity is the angle        *)
(* between day 1's eof1 and the first running vector after the last step.  *)
(***************************************************************************)
RECURSIVE CyclicSuccessors(_, _)
\* <<2, 3, ..., n, 1>> cut after k entries
CyclicSuccessors(n, k) ==
    IF k = 0 THEN <<>>
    ELSE Append(CyclicSuccessors(n, k - 1), IF k = n THEN 1 ELSE k + 1)

RECURSIVE LinComb(_, _, _, _, _)
\* the first i entries of a*v + b*w
LinComb(a, v, b, w, i) ==
    IF i = 0 THEN <<>>
    ELSE Append(LinComb(a, v, b, w, i - 1), FMul(a, v[i]) + FMul(b, w[i]))

\* b1 (b1.u) + b2 (b2.u)
OuterProductProjection(b1, b2, u) ==
    LinComb(Dot(b1, u), b1, Dot(b2, u), b2, Len(u))

\* the rounding the different order of the operations may cost
RoundingSlack == Scale \div 2500

Close(v, w) == \A i \in 1..Len(v) : Abs(v[i] - w[i]) <= RoundingSlack

\* C9: every emitted pair is the projected previous pair mixed with
\* (cos, sin) and (-sin, cos)
C9_RotationMixing ==
    (EstimatorReturned /\ ~IsNaN(delta) /\ ValidInput(orig_eofs))
    => \A k \in 2..Len(eofdata_rotated) :
          LET u == Pair(eofdata_rotated[k - 1])
              b == Pair(orig_eofs[k])
              p1 == OuterProductProjection(b[1], b[2], u[1])
              p2 == OuterProductProjection(b[1], b[2], u[2])
              c == Cos(delta)
              sn == Sin(delta)
          IN  /\ Close(eofdata_rotated[k].eof1vector, LinComb(c, p1, sn, p2, Len(p1)))
              /\ Close(eofdata_rotated[k].eof2vector, LinComb(-sn, p1, c, p2, Len(p1)))

\* C9: a series of 3 or more days has been rotated by a delta well below 0
C9_Witness ==
    /\ pc = "normalize"
    /\ ndoys = Len(orig_eofs)
    /\ ndoys >= 3
    /\ ValidInput(orig_eofs)
    /\ Sin(delta) < -(Scale \div 20)
    /\ NonZero(eofdata_rotated[3].eof1vector)
    /\ NonZero(eofdata_rotated[3].eof2vector)

(***************************************************************************)
(* C10. The correction angle is never positive: for inputs without null    *)
(* vectors the discontinuity lies in [0, pi] and delta in [-pi/D, 0]; the  *)
(* series with the opposite handedness (eof2 negated on every day), whose  *)
(* seam drifts by the same amount in the opposite direction, gets the      *)
(* same delta.                                                             *)
(***************************************************************************)
NegateVector(v) == [i \in 1..Len(v) |-> -v[i]]

MirrorSeries(eofs) ==
    [k \in 1..Len(eofs) |->
        [eofs[k] EXCEPT !.eof2vector = NegateVector(eofs[k].eof2vector)]]

\* the component of the propagated first vector along day 1's eof2: its
\* sign is the direction of the seam drift
SignedDrift(eofs, n) ==
    Dot(ProjectionPass(eofs, n)[1], eofdata_for_doy(eofs, 1).eof2vector)

=============================================================================
